---- MODULE Spec2Model ----
(***************************************************************************)
(* Hoogah-Bot: the per-tenant Bot Framework token cache, the token         *)
(* provider (getBotFrameworkToken) and the delivery client                 *)
(* (sendToConversation) as they are driven by context.send of the          *)
(* /api/messages handlers.  The repository holds four drafts of this code  *)
(* (api/messages.ts and three earlier/later copies); the variable          *)
(* `variant` selects the draft that is running.                            *)
(***************************************************************************)
EXTENDS Integers, Sequences, FiniteSets, TLC

(***************************************************************************)
(* Bounds of the model.                                                    *)
(***************************************************************************)
NTasks == 2          \* concurrent background tasks (overlapping webhooks)
MaxClock == 2        \* Date.now() runs over 0..MaxClock ticks
MaxIssued == 2       \* total number of issuer requests explored

TickMs == 60 * 1000  \* one clock tick of the model, in milliseconds

(***************************************************************************)
(* Program constants.                                                      *)
(***************************************************************************)
SkewMs == 5 * 60 * 1000      \* the refresh skew of the cache check

Variants == {"messages.ts", "part_000", "part_003", "part_004"}
\* drafts whose getBotFrameworkToken wraps the request in try/catch and
\* tests `if (!token)`
TryCatchTokenVariants == {"part_003", "part_004"}

Tenants == {"T1", "T2"}
Tasks == 1..NTasks

ClientId == "app-1"
ClientSecret == "s3cret"
BotAudience == "https://api.botframework.com"

(***************************************************************************)
(* Tokens.  An access_token is a string; the model keeps what the code     *)
(* looks at: whether it splits into three segments, whether the middle     *)
(* segment parses as JSON, and the claims of the payload.  `id` makes the  *)
(* strings of different issuer responses different strings.                *)
(***************************************************************************)
NoPayload == [hasExp |-> FALSE, exp |-> 0, aud |-> "", tid |-> "", appid |-> ""]

\* resp.data.access_token === undefined
NoToken == [id |-> 0, shape |-> "undefined", payload |-> NoPayload]

ExpChoices == {0, 360, 420}      \* exp claims (epoch seconds) the issuer may send
Mismatches == {"none", "aud", "tid", "appid"}

Payload(hasExp, exp, mismatch, tenantId) ==
    [hasExp |-> hasExp,
     exp    |-> IF hasExp THEN exp ELSE 0,
     aud    |-> IF mismatch = "aud" THEN "https://graph.microsoft.com" ELSE BotAudience,
     tid    |-> IF mismatch = "tid" THEN "other-tenant" ELSE tenantId,
     appid  |-> IF mismatch = "appid" THEN "other-app" ELSE ClientId]

\* the tokens the issuer may answer a request for tenantId with, as its n-th answer
IssuableTokens(n, tenantId) ==
    {[id |-> n, shape |-> "opaque", payload |-> NoPayload],
     [id |-> n, shape |-> "badjson", payload |-> NoPayload]}
    \cup {[id |-> n, shape |-> "jwt", payload |-> Payload(FALSE, 0, m, tenantId)] :
            m \in Mismatches}
    \cup {[id |-> n, shape |-> "jwt", payload |-> Payload(TRUE, e, m, tenantId)] :
            e \in ExpChoices, m \in Mismatches}

(***************************************************************************)
(* HTTP responses and JavaScript errors.                                   *)
(***************************************************************************)
NoResponse == [status |-> 0, data |-> "", wwwAuth |-> ""]

NoErr == [name |-> "none", message |-> "", msgStatus |-> 0,
          hasResponse |-> FALSE, response |-> NoResponse]

Error(name, message, msgStatus) ==
    [name |-> name, message |-> message, msgStatus |-> msgStatus,
     hasResponse |-> FALSE, response |-> NoResponse]

\* axios rejects with an AxiosError that carries the response
AxiosStatusError(response) ==
    [name |-> "AxiosError", message |-> "Request failed with status code",
     msgStatus |-> response.status, hasResponse |-> TRUE, response |-> response]

\* axios rejects without a response: network error or timeout
AxiosNoResponseError == Error("AxiosError", "Network Error", 0)

IssuerStatuses == {400, 503}
IssuerBodies == {"invalid_client", "temporarily_unavailable"}

\* what the issuer may answer to its n-th request, made for tenantId:
\* 2xx with or without access_token, non-2xx with a body, or nothing
IssuerAnswers(n, tenantId) ==
    {[kind |-> "response", status |-> 200, data |-> "", wwwAuth |-> "", token |-> tok] :
        tok \in IssuableTokens(n, tenantId) \cup {NoToken}}
    \cup {[kind |-> "response", status |-> s, data |-> b, wwwAuth |-> "", token |-> NoToken] :
        s \in IssuerStatuses, b \in IssuerBodies}
    \cup {[kind |-> "none", status |-> 0, data |-> "", wwwAuth |-> "", token |-> NoToken]}

\* the answers explored while several tasks overlap
CoreIssuerAnswers(n, tenantId) ==
    {a \in IssuerAnswers(n, tenantId) :
        /\ a.status \in {0, 200, 400}
        /\ a.data \in {"", "invalid_client"}
        /\ a.token.shape \in {"undefined", "jwt"}
        /\ a.token.payload.exp \in {0, 360}
        /\ a.token.payload \in {NoPayload, Payload(FALSE, 0, "none", tenantId),
                                 Payload(TRUE, 360, "none", tenantId)}}

ConnectorStatuses == {199, 200, 299, 300, 401}
Challenge == "Bearer error=\"invalid_token\""

\* what the Bot Framework Connector may answer to a delivery POST
ConnectorAnswers ==
    {[kind |-> "response", status |-> s, data |-> "", wwwAuth |-> "", token |-> NoToken] :
        s \in ConnectorStatuses}
    \cup {[kind |-> "response", status |-> 401, data |-> "", wwwAuth |-> Challenge,
           token |-> NoToken]}
    \cup {[kind |-> "none", status |-> 0, data |-> "", wwwAuth |-> "", token |-> NoToken]}

CoreConnectorAnswers ==
    {a \in ConnectorAnswers : a.status \in {0, 200} \/ a.wwwAuth = Challenge}

NoAnswer == [kind |-> "pending", status |-> 0, data |-> "", wwwAuth |-> "", token |-> NoToken]

\* the response object the code sees for an answer
ResponseOf(a) == [status |-> a.status, data |-> a.data, wwwAuth |-> a.wwwAuth]

(***************************************************************************)
(* Strings the code takes apart.  A string is the sequence of its          *)
(* characters; a unit of more than one character stands for a run of       *)
(* letters and digits.                                                     *)
(***************************************************************************)
MaxUrlLen == 3       \* characters of a serviceUrl
MaxIdLen == 3        \* characters of a conversation id
MaxSegLen == 4       \* characters of the middle segment of a token

\* all strings over alphabet of at most n characters
StringsUpTo(alphabet, n) == UNION {[1..k -> alphabet] : k \in 0..n}

\* a UTF-16 surrogate without its partner
LoneSurrogate == "<D800>"

UrlChars == {"h", "/"}
IdChars == {"a", "/", "#", "%", LoneSurrogate}

\* `.replace(/\/$/, "")`: one slash at the very end of the string is removed
TrimTrailingSlash(s) ==
    IF Len(s) > 0 /\ s[Len(s)] = "/" THEN SubSeq(s, 1, Len(s) - 1) ELSE s

\* the characters encodeURIComponent leaves as they are
Unreserved(c) == c \notin {"/", "#", "%", ":", "?", "&", "=", "+", " ", LoneSurrogate}

\* the escape of one character (UTF-8, upper-case hexadecimal)
PercentEscape(c) ==
    CASE c = "/" -> <<"%", "2", "F">>
      [] c = "#" -> <<"%", "2", "3">>
      [] c = "%" -> <<"%", "2", "5">>
      [] c = ":" -> <<"%", "3", "A">>
      [] c = "?" -> <<"%", "3", "F">>
      [] c = "&" -> <<"%", "2", "6">>
      [] c = "=" -> <<"%", "3", "D">>
      [] c = "+" -> <<"%", "2", "B">>
      [] c = " " -> <<"%", "2", "0">>
      [] OTHER -> <<c>>

RECURSIVE encodeURI(_)
\* encodeURI, which keeps the characters that have a meaning in a URI
encodeURI(s) ==
    IF s = <<>> THEN <<>>
    ELSE (IF Head(s) \in {"/", "#", ":", "?", "&", "=", "+"} \/ Unreserved(Head(s))
          THEN <<Head(s)>> ELSE PercentEscape(Head(s)))
         \o encodeURI(Tail(s))

RECURSIVE encodeURIComponent(_)
\* encodeURIComponent of a well-formed string
encodeURIComponent(s) ==
    IF s = <<>> THEN <<>>
    ELSE (IF Unreserved(Head(s)) THEN <<Head(s)>> ELSE PercentEscape(Head(s)))
         \o encodeURIComponent(Tail(s))

\* encodeURIComponent throws a URIError on a lone surrogate
Malformed(s) == \E i \in 1..Len(s) : s[i] = LoneSurrogate

\* the url of sendToConversation
DeliveryUrl(serviceUrl, convId) ==
    TrimTrailingSlash(serviceUrl) \o <<"/v3/conversations/">>
        \o encodeURIComponent(convId) \o <<"/activities">>

SegChars == {"A", "-", "_"}

\* `"===".slice(k)`
PaddingFrom(k) == SubSeq(<<"=", "=", "=">>, k + 1, 3)

\* the conversion with the padding computed from the length alone
Base64FromBase64UrlShortPad(b64url) ==
    [i \in 1..Len(b64url) |->
        IF b64url[i] = "-" THEN "+" ELSE IF b64url[i] = "_" THEN "/" ELSE b64url[i]]
    \o PaddingFrom(Len(b64url) % 4)

\* `b64url.replace(/-/g, "+").replace(/_/g, "/") + "===".slice((b64url.length + 3) % 4)`
Base64FromBase64Url(b64url) ==
    [i \in 1..Len(b64url) |->
        IF b64url[i] = "-" THEN "+" ELSE IF b64url[i] = "_" THEN "/" ELSE b64url[i]]
    \o PaddingFrom((Len(b64url) + 3) % 4)

(***************************************************************************)
(* Inbound requests.  An activity is what the code reads of req.body: the  *)
(* tenant of channelData, serviceUrl, and conversation.id.                 *)
(***************************************************************************)
ActivityTenants == {"", "T1", "T2"}     \* activity.channelData?.tenant?.id

NoActivity == [tenant |-> "", hasConversation |-> FALSE, serviceUrl |-> <<>>, convId |-> <<>>]

\* the activities of the webhook that task t serves: every webhook has a
\* conversation and a serviceUrl of its own
CoreActivities(t) ==
    {[tenant |-> a, hasConversation |-> TRUE,
      serviceUrl |-> IF t = 1 THEN <<"https://smba", ToString(t), "/">>
                     ELSE <<"https://smba", ToString(t)>>,
      convId |-> <<"a", ":", ToString(t)>>] : a \in ActivityTenants}

\* activities with an empty, a missing or an unusual serviceUrl or conversation
DeliveryActivities ==
    {[tenant |-> "T1", hasConversation |-> TRUE, serviceUrl |-> u, convId |-> c] :
        u \in {<<>>, <<"h">>, <<"h", "/">>, <<"h", "/", "/">>},
        c \in {<<>>, <<"a">>, <<"a", "/", "#">>, <<"%", "2", "F">>, <<"a", LoneSurrogate>>}}
    \cup {[tenant |-> "T1", hasConversation |-> FALSE, serviceUrl |-> <<"h">>, convId |-> <<>>]}

\* the requests that carry one of the activities acts, a POST without a body,
\* and a request with another method
Requests(acts) ==
    {[method |-> "GET", hasBody |-> FALSE, activity |-> NoActivity],
     [method |-> "POST", hasBody |-> FALSE, activity |-> NoActivity]}
    \cup {[method |-> "POST", hasBody |-> TRUE, activity |-> a] : a \in acts}

(***************************************************************************)
(* The bot.  What its handlers read of an activity: type, name,            *)
(* conversation.id, text, and value (for an invoke, value.action.type and  *)
(* value.action.data).  A text is a sequence of units: a mention, a blank, *)
(* or a word.                                                              *)
(***************************************************************************)
Conversations == {"c1", "c2"}

TestConversation == "test-conversation"    \* the conversation of the /chat mock activity

AnswerValues == {"A", "B"}

Questions == {1, 2, 3}

Mention == "<at>bot</at>"

Blank == " "

\* card data: `type`, `questionId` (0: absent) and `value` ("": absent)
NoValue == [kind |-> "none", questionId |-> 0, value |-> ""]

StartValue == [kind |-> "start", questionId |-> 0, value |-> ""]

AnswerData(i, v) == [kind |-> "answer", questionId |-> i, value |-> v]

\* an activity of the bot; actionType is value.action.type of an invoke
BotActivity(type, name, hasConv, conv, text, actionType, value) ==
    [type |-> type, name |-> name, hasConversation |-> hasConv, conv |-> conv,
     text |-> text, actionType |-> actionType, value |-> value]

NoBotActivity == BotActivity("none", "", FALSE, "", <<>>, "", NoValue)

\* `{}`: what getUserState creates for a conversation it has not seen
NoState == [q1 |-> "", q2 |-> "", q3 |-> "", hasStarted |-> FALSE]

\* the conversation id that names the prototype of every object
ProtoKey == "__proto__"

\* `const userState: Record<string, UserState> = {}`; the record of ProtoKey
\* stands for the properties q1, q2, q3, hasStarted of Object.prototype
NoUserState == [c \in Conversations \cup {TestConversation, ProtoKey} |-> NoState]

\* the body of a request to /chat: text, message ("" when absent) and value
NoBody == [text |-> <<>>, message |-> <<>>, value |-> NoValue]

\* what is kept of the last inbound activity: where it arrived, how it was
\* dispatched, what was passed to context.send, and for /chat the request
\* body and the response (status, "reply" for {success, messages, received}
\* or "error" for {error}, the cards of messages, received)
\* a router without select and without routes
NoRouter == [hasSelect |-> FALSE, selects |-> FALSE, hasRoutes |-> FALSE]

NoTurn ==
    [endpoint |-> "none", activity |-> NoBotActivity, router |-> NoRouter, fails |-> {},
     handlersCalled |-> FALSE,
     calls |-> 0, sends |-> <<>>, threw |-> FALSE, body |-> NoBody, http |-> 0,
     shape |-> "none", messages |-> <<>>, received |-> <<>>,
     method |-> "", outcome |-> [ran |-> FALSE, wrote |-> FALSE, threw |-> FALSE],
     responses |-> <<>>]

(***************************************************************************)
(* State.                                                                  *)
(***************************************************************************)
VARIABLES
    variant,             \* which draft of the handler runs
    env,                 \* process.env: CLIENT_ID, CLIENT_SECRET, MS_TENANT_ID
    now,                 \* Date.now(), milliseconds
    tokenCacheByTenant,  \* the Map tenantId -> TokenCacheEntry
    issued,              \* number of requests made to the issuer so far
    tasks,               \* the webhook and its background task, per request
    calc,                \* a string function applied on its own
    userState,           \* the Record conversationId -> UserState of the bot
    turn                 \* the inbound activity the bot handled last

vars == <<variant, env, now, tokenCacheByTenant, issued, tasks, calc, userState, turn>>

NoBearer == [token |-> NoToken, truncatedTo |-> 0]

NoEntry == [present |-> FALSE, token |-> NoToken, expMs |-> 0]

IdleTask ==
    [pc |-> "idle", method |-> "", responses |-> <<>>, http |-> 0, events |-> <<>>, activity |-> NoActivity,
     tenant |-> "", cacheHit |-> FALSE, issuerCalls |-> 0,
     requestNo |-> 0, issuerAnswer |-> NoAnswer, token |-> NoToken,
     warnings |-> {}, posts |-> 0, bearer |-> NoBearer, postUrl |-> <<>>,
     connectorAnswer |-> NoAnswer, failedIn |-> "none", err |-> NoErr,
     deliveryLog |-> <<>>, reportedBy |-> "none", sendThrew |-> FALSE,
     unhandled |-> FALSE]

FullEnv == [CLIENT_ID |-> ClientId, CLIENT_SECRET |-> ClientSecret, MS_TENANT_ID |-> "T1"]

EnvConfigs ==
    {FullEnv,
     [CLIENT_ID |-> "", CLIENT_SECRET |-> ClientSecret, MS_TENANT_ID |-> "T1"],
     [CLIENT_ID |-> ClientId, CLIENT_SECRET |-> "", MS_TENANT_ID |-> "T1"]}

\* every combination of set and unset credentials
AllEnvConfigs ==
    [CLIENT_ID : {"", ClientId}, CLIENT_SECRET : {"", ClientSecret}, MS_TENANT_ID : {"", "T1"}]

NoCalc == [fn |-> "none", arg |-> <<>>, conv |-> <<>>, out |-> <<>>, threw |-> FALSE]

Init ==
    /\ variant \in Variants
    /\ env \in EnvConfigs
    /\ now = 0
    /\ tokenCacheByTenant = [T \in Tenants |-> NoEntry]
    /\ issued = 0
    /\ tasks = [t \in Tasks |-> IdleTask]
    /\ calc = NoCalc
    /\ userState = NoUserState
    /\ turn = NoTurn

(***************************************************************************)
(* axios.post: resolves with the response when validateStatus accepts the  *)
(* status (by default 200..299; `validateStatus: () => true` accepts every *)
(* status), rejects with an AxiosError carrying the response otherwise,    *)
(* and rejects without a response on a network error or timeout.           *)
(***************************************************************************)
axiosPost(answer, acceptAnyStatus) ==
    IF answer.kind = "none"
    THEN [ok |-> FALSE, err |-> AxiosNoResponseError]
    ELSE IF acceptAnyStatus \/ (answer.status >= 200 /\ answer.status < 300)
         THEN [ok |-> TRUE, err |-> NoErr]
         ELSE [ok |-> FALSE, err |-> AxiosStatusError(ResponseOf(answer))]

(***************************************************************************)
(* decodeJwtPayload: null unless the token has three segments; the parsed  *)
(* payload otherwise.  token.split throws a TypeError on undefined and     *)
(* JSON.parse a SyntaxError on a middle segment that is not JSON.          *)
(***************************************************************************)
decodeJwtPayload(token) ==
    IF token.shape = "undefined"
    THEN [err |-> Error("TypeError", "Cannot read properties of undefined (reading 'split')", 0),
          isNull |-> TRUE, payload |-> NoPayload]
    ELSE IF token.shape = "opaque"
    THEN [err |-> NoErr, isNull |-> TRUE, payload |-> NoPayload]
    ELSE IF token.shape = "badjson"
    THEN [err |-> Error("SyntaxError", "Unexpected token in JSON", 0),
          isNull |-> TRUE, payload |-> NoPayload]
    ELSE [err |-> NoErr, isNull |-> FALSE, payload |-> token.payload]

\* the guard of the cache write left out
TruthyAlways(payload) == TRUE

\* `if (... && payload.exp)`: undefined and 0 are falsy
Truthy(payload) == payload.hasExp /\ payload.exp # 0

\* the cache check with the skew counted twice
CacheValidWrongSkew(cached, n) == cached.present /\ n < cached.expMs - 2 * SkewMs

\* the cache check with the boundary instant taken as still valid
CacheValidInclusive(cached, n) == cached.present /\ n <= cached.expMs - SkewMs

\* the cache check at the head of getBotFrameworkToken
CacheValid(cached, n) == cached.present /\ n < cached.expMs - SkewMs

\* the entry with exp taken as milliseconds
CacheEntrySeconds(token, payload) == [present |-> TRUE, token |-> token, expMs |-> payload.exp]

\* the entry with an expiry that is not the one of its token
CacheEntryOtherExpiry(token, payload) == [present |-> TRUE, token |-> token, expMs |-> 420 * 1000]

\* the entry written by tokenCacheByTenant.set
CacheEntry(token, payload) == [present |-> TRUE, token |-> token, expMs |-> payload.exp * 1000]

\* the throw of `if (!token)` in the drafts that have it
NoAccessTokenError(v) ==
    IF v = "part_004"
    THEN Error("Error", "No access_token in response from Microsoft OAuth endpoint", 0)
    ELSE Error("Error", "No access_token in response", 0)

\* the claim checks of part_000: each mismatch is a console.warn
ClaimWarnings(v, payload, clientId, tenantId) ==
    IF v # "part_000" THEN {}
    ELSE (IF payload.aud # "https://api.botframework.com" /\ payload.aud # "api.botframework.com"
          THEN {"aud"} ELSE {})
         \cup (IF payload.appid # clientId THEN {"appid"} ELSE {})
         \cup (IF payload.tid # tenantId THEN {"tid"} ELSE {})

\* a mismatch of the claims treated as a hard error
MismatchThrowsAny(warnings) == warnings # {}

\* a mismatch of the claims is logged with console.warn and never thrown
MismatchThrows(warnings) == FALSE

\* the error wrapped in a new Error, which drops its response
TokenThrowsWrapped(e) ==
    [returned |-> FALSE, token |-> NoToken, err |-> Error("Error", e.message, e.msgStatus),
     put |-> FALSE, entry |-> NoEntry, warnings |-> {}]

\* getBotFrameworkToken throws e: the error of axios or of the decoding as it is
TokenThrows(e) ==
    [returned |-> FALSE, token |-> NoToken, err |-> e, put |-> FALSE,
     entry |-> NoEntry, warnings |-> {}]

(***************************************************************************)
(* getBotFrameworkToken from the await of axios.post to its return or      *)
(* throw: `posted` is the outcome of axios.post, `answer` the issuer's     *)
(* answer.  The catch blocks of part_003/part_004 log and rethrow.         *)
(***************************************************************************)
TokenOutcome(v, posted, answer, clientId, tenantId) ==
    IF ~posted.ok THEN TokenThrows(posted.err)
    ELSE LET token == answer.token
             decoded == decodeJwtPayload(token)
         IN IF v \in TryCatchTokenVariants /\ token = NoToken
            THEN TokenThrows(NoAccessTokenError(v))
            ELSE IF decoded.err # NoErr THEN TokenThrows(decoded.err)
            ELSE IF v = "part_000" /\ ~decoded.isNull /\ ~decoded.payload.hasExp
            THEN \* new Date(undefined * 1000).toISOString()
                 TokenThrows(Error("RangeError", "Invalid time value", 0))
            ELSE LET warnings == IF decoded.isNull THEN {}
                                 ELSE ClaimWarnings(v, decoded.payload, clientId, tenantId)
                 IN IF MismatchThrows(warnings)
                    THEN TokenThrows(Error("Error", "Token claims mismatch", 0))
                    ELSE [returned |-> TRUE, token |-> token, err |-> NoErr,
                          put |-> ~decoded.isNull /\ Truthy(decoded.payload),
                          entry |-> CacheEntry(token, decoded.payload),
                          warnings |-> warnings]

\* the Authorization header of the delivery POST
Bearer(v, token) ==
    [token |-> token, truncatedTo |-> IF v = "part_003" THEN 20 ELSE 0]

\* the error of `throw new Error(`Bot Framework Connector returned status ...`)`
ConnectorStatusError(status) ==
    Error("Error", "Bot Framework Connector returned status", status)

\* the status test with the upper boundary off by one
Non2xxOffByOne(status) == status < 200 \/ status > 300

\* `response.status < 200 || response.status >= 300`
Non2xx(status) == status < 200 \/ status >= 300

\* what the catch block of sendToConversation logs for the error it rethrows
DeliveryCatchLog(v, e) ==
    IF v = "messages.ts" THEN <<>>
    ELSE IF v = "part_003" THEN (IF e.hasResponse THEN <<"error", "status">> ELSE <<"error">>)
    ELSE IF e.hasResponse THEN <<"status">> ELSE <<"no response">>

(***************************************************************************)
(* sendToConversation from the await of axios.post (validateStatus accepts *)
(* every status) to its return or throw.                                   *)
(***************************************************************************)
DeliveryOutcome(v, posted, answer) ==
    IF ~posted.ok
    THEN [threw |-> TRUE, err |-> posted.err, log |-> DeliveryCatchLog(v, posted.err)]
    ELSE IF Non2xx(answer.status)
         THEN LET e == ConnectorStatusError(answer.status)
              IN [threw |-> TRUE, err |-> e,
                  log |-> <<"non-2xx">> \o DeliveryCatchLog(v, e)]
         ELSE [threw |-> FALSE, err |-> NoErr, log |-> <<>>]

(***************************************************************************)
(* The handler's credentials and tenant.                                   *)
(***************************************************************************)
ResolveTenant(v, e, activityTenant) ==
    IF v = "part_004"
    THEN (IF e.MS_TENANT_ID # "" THEN e.MS_TENANT_ID ELSE activityTenant)
    ELSE (IF activityTenant # "" THEN activityTenant ELSE e.MS_TENANT_ID)

ConfigError(v, e, tenantId) ==
    IF v = "part_004"
    THEN IF e.CLIENT_ID = "" THEN Error("Error", "CLIENT_ID environment variable must be set", 0)
         ELSE IF e.CLIENT_SECRET = ""
         THEN Error("Error", "CLIENT_SECRET environment variable must be set", 0)
         ELSE IF tenantId = ""
         THEN Error("Error", "MS_TENANT_ID environment variable must be set", 0)
         ELSE NoErr
    ELSE IF e.CLIENT_ID = "" \/ e.CLIENT_SECRET = ""
         THEN Error("Error", "CLIENT_ID and CLIENT_SECRET must be set", 0)
         ELSE IF tenantId = ""
         THEN Error("Error", "Tenant ID not found in activity.channelData.tenant.id and MS_TENANT_ID not set", 0)
         ELSE NoErr

(***************************************************************************)
(* The handler of POST /api/messages up to the start of its background     *)
(* task.                                                                   *)
(***************************************************************************)
\* `res.status(status).json(...)`, `.send(...)` or `.end()`: one more response
\* written to res
Respond(written, status) == Append(written, status)

\* what the handler answers to the webhook, and whether it goes on to process
\* the activity
HandlerReply(v, req) ==
    IF v # "part_000" /\ req.method # "POST" THEN [http |-> 405, runs |-> FALSE]
    ELSE IF v \in {"messages.ts", "part_000"}
         THEN (IF ~req.hasBody THEN [http |-> 400, runs |-> FALSE]
               ELSE [http |-> 200, runs |-> TRUE])
         ELSE [http |-> 200, runs |-> req.hasBody]

\* the acknowledgement sent when the processing has ended
RunThenAck(events) == events \o <<"ack">>

\* `res.status(200).send('OK')` stands before `void (async () => {...})()`:
\* the acknowledgement precedes what the background task does
AckThenRun(events) == <<"ack">> \o events

\* the catch of send passing the error on
SendCatchRethrows(e) ==
    [rethrows |-> TRUE,
     log |-> IF e.hasResponse THEN <<"message", "status", "www-authenticate", "data">>
             ELSE <<"message">>]

\* the catch block of context.send: console.error, no rethrow
SendCatch(e) ==
    [rethrows |-> FALSE,
     log |-> IF e.hasResponse THEN <<"message", "status", "www-authenticate", "data">>
             ELSE <<"message">>]

\* the catch block that closes the background task: console.error, no rethrow
TaskCatch(e) == [rethrows |-> FALSE]

\* a second attempt after a failure without a response
RetryAfterNoResponse(e) == e.name = "AxiosError" /\ ~e.hasResponse

\* nothing in send, getBotFrameworkToken or sendToConversation calls again
\* after an error
RetryAfter(e) == FALSE

\* an error thrown inside context.send reaches the catch of send
FailedInSend(task, where, e) ==
    LET c == SendCatch(e)
    IN [task EXCEPT !.pc = "done", !.failedIn = where, !.err = e,
                    !.reportedBy = "send", !.sendThrew = c.rethrows,
                    !.unhandled = c.rethrows /\ TaskCatch(e).rethrows]

\* an error thrown by the background task before it built context.send
FailedInTask(task, e) ==
    [task EXCEPT !.pc = "done", !.failedIn = "config", !.err = e,
                 !.reportedBy = "task", !.unhandled = TaskCatch(e).rethrows]

\* one activity variable shared by the webhooks in progress
ActivityOfShared(ts, t) ==
    ts[CHOOSE u \in DOMAIN ts :
          /\ ts[u].pc # "idle"
          /\ \A w \in DOMAIN ts : ts[w].pc # "idle" => w <= u].activity

\* `activity` is a const of the handler invocation, captured by context.send
ActivityOf(ts, t) == ts[t].activity

\* the head of sendToConversation: serviceUrl, convId, url and headers
IssuePost(v, activity, token) ==
    IF ~activity.hasConversation
    THEN [ok |-> FALSE, url |-> <<>>, bearer |-> NoBearer,
          err |-> Error("TypeError", "Cannot read properties of undefined (reading 'id')", 0)]
    ELSE IF Malformed(activity.convId)
    THEN [ok |-> FALSE, url |-> <<>>, bearer |-> NoBearer,
          err |-> Error("URIError", "URI malformed", 0)]
    ELSE [ok |-> TRUE, url |-> DeliveryUrl(activity.serviceUrl, activity.convId),
          bearer |-> Bearer(v, token), err |-> NoErr]

\* send calls sendToConversation with the token it got
BeginDelivery(v, task, activity, token) ==
    LET p == IssuePost(v, activity, token)
    IN IF p.ok
       THEN [task EXCEPT !.pc = "post_wait", !.posts = @ + 1, !.bearer = p.bearer,
                         !.postUrl = p.url, !.events = Append(@, "post")]
       ELSE FailedInSend(task, "delivery", p.err)

\* the entry of the tenant dropped when the token request fails
CacheAfterEvicting(cache, tenantId, out) ==
    IF out.returned /\ out.put THEN [cache EXCEPT ![tenantId] = out.entry]
    ELSE [cache EXCEPT ![tenantId] = NoEntry]

\* one entry for all tenants
CacheAfterShared(cache, tenantId, out) ==
    IF out.returned /\ out.put THEN [T \in DOMAIN cache |-> out.entry] ELSE cache

\* the Map after getBotFrameworkToken has run for tenantId with outcome out:
\* tokenCacheByTenant.set(tenantId, ...) is its only write
CacheAfter(cache, tenantId, out) ==
    IF out.returned /\ out.put THEN [cache EXCEPT ![tenantId] = out.entry] ELSE cache

(***************************************************************************)
(* Actions.                                                                *)
(***************************************************************************)
\* the background task runs the route, which invokes context.send for the
\* activity: credentials, tenant, the cache check of getBotFrameworkToken, and
\* then either the token request (cache miss) or, with the cached token, the
\* delivery POST.
StartSend(t, activity) ==
    LET tenantId == ResolveTenant(variant, env, activity.tenant)
        cfgErr == ConfigError(variant, env, tenantId)
        entered == [IdleTask EXCEPT !.pc = "send", !.method = "POST",
                                    !.responses = Respond(<<>>, 200),
                                    !.http = 200, !.activity = activity]
        acked(task) == [task EXCEPT !.events = AckThenRun(@)]
    IN IF cfgErr # NoErr
       THEN /\ tasks' = [tasks EXCEPT ![t] =
                  acked(IF variant = "part_004" THEN FailedInTask(entered, cfgErr)
                        ELSE FailedInSend(entered, "config", cfgErr))]
            /\ UNCHANGED issued
       ELSE IF CacheValid(tokenCacheByTenant[tenantId], now)
       THEN /\ tasks' = [tasks EXCEPT ![t] =
                  acked(BeginDelivery(variant,
                            [entered EXCEPT !.tenant = tenantId, !.cacheHit = TRUE,
                                            !.token = tokenCacheByTenant[tenantId].token],
                            ActivityOf([tasks EXCEPT ![t] = entered], t),
                            tokenCacheByTenant[tenantId].token))]
            /\ UNCHANGED issued
       ELSE /\ issued < MaxIssued
            /\ issued' = issued + 1
            /\ tasks' = [tasks EXCEPT ![t] =
                  acked([entered EXCEPT !.pc = "token_wait", !.tenant = tenantId,
                                        !.issuerCalls = 1, !.requestNo = issued + 1,
                                        !.events = <<"issuer">>])]

\* an inbound request: the method and body checks, the acknowledgement, and
\* the start of the background task
Handler(t, req) ==
    /\ tasks[t].pc = "idle"
    /\ variant = "part_000" => req.method = "POST"
    /\ LET reply == HandlerReply(variant, req)
       IN IF reply.runs
          THEN StartSend(t, req.activity)
          ELSE /\ tasks' = [tasks EXCEPT ![t] =
                     [IdleTask EXCEPT !.pc = "done", !.method = req.method,
                                      !.responses = Respond(<<>>, reply.http),
                                      !.http = reply.http,
                                      !.events = IF reply.http = 200 THEN <<"ack">> ELSE <<>>]]
               /\ UNCHANGED issued
    /\ UNCHANGED <<variant, env, now, tokenCacheByTenant, calc, userState, turn>>

\* the token request settles: the rest of getBotFrameworkToken runs and, when
\* it returned a token, sendToConversation issues the delivery POST; when it
\* threw, the catch of send logs the error
IssuerRespond(t, answer) ==
    /\ tasks[t].pc = "token_wait"
    /\ LET tenantId == tasks[t].tenant
           out == TokenOutcome(variant, axiosPost(answer, FALSE), answer, env.CLIENT_ID, tenantId)
       IN /\ tokenCacheByTenant' = CacheAfter(tokenCacheByTenant, tenantId, out)
          /\ IF out.returned
             THEN /\ tasks' = [tasks EXCEPT ![t] =
                        BeginDelivery(variant,
                            [@ EXCEPT !.issuerAnswer = answer, !.token = out.token,
                                      !.warnings = out.warnings],
                            ActivityOf(tasks, t), out.token)]
                  /\ UNCHANGED issued
             ELSE IF RetryAfter(out.err) /\ issued < MaxIssued
             THEN /\ tasks' = [tasks EXCEPT ![t] =
                        [@ EXCEPT !.issuerAnswer = answer, !.issuerCalls = @ + 1,
                                  !.requestNo = issued + 1,
                                  !.events = Append(@, "issuer")]]
                  /\ issued' = issued + 1
             ELSE /\ tasks' = [tasks EXCEPT ![t] =
                        FailedInSend([@ EXCEPT !.issuerAnswer = answer], "token", out.err)]
                  /\ UNCHANGED issued
    /\ UNCHANGED <<variant, env, now, calc, userState, turn>>

\* the delivery POST settles: the rest of sendToConversation runs, and the
\* catch of send logs what it threw
ConnectorRespond(t, answer) ==
    /\ tasks[t].pc = "post_wait"
    /\ LET out == DeliveryOutcome(variant, axiosPost(answer, TRUE), answer)
           settled == [tasks[t] EXCEPT !.connectorAnswer = answer, !.deliveryLog = out.log]
       IN tasks' = [tasks EXCEPT ![t] =
                IF ~out.threw THEN [settled EXCEPT !.pc = "done"]
                ELSE IF RetryAfter(out.err) /\ settled.posts < MaxIssued
                THEN [settled EXCEPT !.posts = @ + 1, !.events = Append(@, "post")]
                ELSE FailedInSend(settled, "delivery", out.err)]
    /\ UNCHANGED <<variant, env, now, tokenCacheByTenant, issued, calc, userState, turn>>

\* the background task has ended; the next webhook gets a task of its own
Finish(t) ==
    /\ tasks[t].pc = "done"
    /\ tasks' = [tasks EXCEPT ![t] = IdleTask]
    /\ UNCHANGED <<variant, env, now, tokenCacheByTenant, issued, calc, userState, turn>>

\* time passes
Tick ==
    /\ now < MaxClock * TickMs
    /\ now' = now + TickMs
    /\ UNCHANGED <<variant, env, tokenCacheByTenant, issued, tasks, calc, userState, turn>>

\* overlapping background tasks
Next ==
    \/ \E t \in Tasks : \E r \in Requests(CoreActivities(t)) : Handler(t, r)
    \/ \E t \in Tasks : \E a \in CoreIssuerAnswers(tasks[t].requestNo, tasks[t].tenant) :
            IssuerRespond(t, a)
    \/ \E t \in Tasks, a \in CoreConnectorAnswers : ConnectorRespond(t, a)
    \/ \E t \in Tasks : Finish(t)
    \/ Tick

Spec == Init /\ [][Next]_vars

\* one webhook at a time, every answer of the issuer and of the Connector
NextSolo ==
    \/ \E r \in Requests(CoreActivities(1)) : Handler(1, r)
    \/ \E a \in IssuerAnswers(tasks[1].requestNo, tasks[1].tenant) : IssuerRespond(1, a)
    \/ \E a \in ConnectorAnswers : ConnectorRespond(1, a)
    \/ Finish(1)
    \/ Tick

SpecSolo == Init /\ [][NextSolo]_vars

\* one webhook at a time with full credentials, every shape of activity
InitDelivery == Init /\ env = FullEnv

NextDelivery ==
    \/ \E r \in Requests(DeliveryActivities) : Handler(1, r)
    \/ \E a \in CoreIssuerAnswers(tasks[1].requestNo, tasks[1].tenant) : IssuerRespond(1, a)
    \/ \E a \in CoreConnectorAnswers : ConnectorRespond(1, a)
    \/ Finish(1)
    \/ Tick

SpecDelivery == InitDelivery /\ [][NextDelivery]_vars

\* one webhook at a time, every combination of credentials
InitConfig ==
    /\ variant \in Variants
    /\ env \in AllEnvConfigs
    /\ now = 0
    /\ tokenCacheByTenant = [T \in Tenants |-> NoEntry]
    /\ issued = 0
    /\ tasks = [t \in Tasks |-> IdleTask]
    /\ calc = NoCalc
    /\ userState = NoUserState
    /\ turn = NoTurn

NextConfig ==
    \/ \E r \in Requests(CoreActivities(1)) : Handler(1, r)
    \/ \E a \in CoreIssuerAnswers(tasks[1].requestNo, tasks[1].tenant) : IssuerRespond(1, a)
    \/ \E a \in CoreConnectorAnswers : ConnectorRespond(1, a)
    \/ Finish(1)
    \/ Tick

SpecConfig == InitConfig /\ [][NextConfig]_vars

(***************************************************************************)
(* The string functions on their own: the url of sendToConversation and    *)
(* the base64 conversion of decodeJwtPayload, which are the same in the    *)
(* four drafts.                                                            *)
(***************************************************************************)
CalcInputs ==
    {[fn |-> "trim", arg |-> x, conv |-> <<>>, out |-> <<>>, threw |-> FALSE] :
        x \in StringsUpTo(UrlChars, MaxUrlLen)}
    \cup {[fn |-> "url", arg |-> u, conv |-> c, out |-> <<>>, threw |-> FALSE] :
        u \in StringsUpTo(UrlChars, MaxUrlLen), c \in StringsUpTo(IdChars, MaxIdLen)}
    \cup {[fn |-> "base64", arg |-> b, conv |-> <<>>, out |-> <<>>, threw |-> FALSE] :
        b \in StringsUpTo(SegChars, MaxSegLen)}

InitCalc ==
    /\ variant = "messages.ts"
    /\ env = FullEnv
    /\ now = 0
    /\ tokenCacheByTenant = [T \in Tenants |-> NoEntry]
    /\ issued = 0
    /\ tasks = [t \in Tasks |-> IdleTask]
    /\ calc \in CalcInputs
    /\ userState = NoUserState
    /\ turn = NoTurn

\* the trim of serviceUrl, applied to the input and then to its own result
Normalize ==
    /\ calc.fn = "trim"
    /\ Len(calc.out) < 2
    /\ calc' = [calc EXCEPT !.out =
            Append(@, TrimTrailingSlash(IF @ = <<>> THEN calc.arg ELSE @[Len(@)]))]
    /\ UNCHANGED <<variant, env, now, tokenCacheByTenant, issued, tasks, userState, turn>>

\* the url built for the serviceUrl as given, and then for it with a slash added
BuildUrl ==
    /\ calc.fn = "url"
    /\ ~calc.threw
    /\ Len(calc.out) < 2
    /\ LET serviceUrl == IF calc.out = <<>> THEN calc.arg ELSE calc.arg \o <<"/">>
       IN calc' = IF Malformed(calc.conv)
                  THEN [calc EXCEPT !.threw = TRUE]
                  ELSE [calc EXCEPT !.out = Append(@, DeliveryUrl(serviceUrl, calc.conv))]
    /\ UNCHANGED <<variant, env, now, tokenCacheByTenant, issued, tasks, userState, turn>>

\* the middle segment of a token made standard base64
ConvertSegment ==
    /\ calc.fn = "base64"
    /\ calc.out = <<>>
    /\ calc' = [calc EXCEPT !.out = <<Base64FromBase64Url(calc.arg)>>]
    /\ UNCHANGED <<variant, env, now, tokenCacheByTenant, issued, tasks, userState, turn>>

NextCalc == Normalize \/ BuildUrl \/ ConvertSegment

SpecCalc == InitCalc /\ [][NextCalc]_vars

\* overlapping webhooks with full credentials whose token requests are all
\* answered with tokens of different expiries
InitRace == Init /\ env = FullEnv

RaceIssuerAnswers(n, tenantId) ==
    {a \in IssuerAnswers(n, tenantId) :
        /\ a.status = 200
        /\ a.token.shape = "jwt"
        /\ a.token.payload \in {Payload(TRUE, e, "none", tenantId) : e \in {360, 420}}}

NextRace ==
    \/ \E t \in Tasks : \E r \in Requests(CoreActivities(t)) : Handler(t, r)
    \/ \E t \in Tasks : \E a \in RaceIssuerAnswers(tasks[t].requestNo, tasks[t].tenant) :
            IssuerRespond(t, a)
    \/ \E t \in Tasks, a \in CoreConnectorAnswers : ConnectorRespond(t, a)
    \/ \E t \in Tasks : Finish(t)
    \/ Tick

SpecRace == InitRace /\ [][NextRace]_vars

(***************************************************************************)
(* The bot logic of setupBot.  A handler run is described by the userState *)
(* it leaves, the card it passes to context.send ("" when it sends         *)
(* nothing; every branch returns after its send), and whether it threw     *)
(* before sending.                                                         *)
(***************************************************************************)
Ran(us, card, threw) == [us |-> us, card |-> card, threw |-> threw]

\* what the properties of the object returned by getUserState(c) read as:
\* userState is an object literal, so userState["__proto__"] is
\* Object.prototype itself, and the record of any other conversation
\* inherits from it the properties it does not have of its own
Read(us, c) ==
    IF c = ProtoKey THEN us[ProtoKey]
    ELSE [q1 |-> IF us[c].q1 # "" THEN us[c].q1 ELSE us[ProtoKey].q1,
          q2 |-> IF us[c].q2 # "" THEN us[c].q2 ELSE us[ProtoKey].q2,
          q3 |-> IF us[c].q3 # "" THEN us[c].q3 ELSE us[ProtoKey].q3,
          hasStarted |-> us[c].hasStarted \/ us[ProtoKey].hasStarted]

\* `delete userState[c]` followed by getUserState(c): a new `{}`, except for
\* "__proto__", which is not an own property and stays as it is
Deleted(record, c) == IF c = ProtoKey THEN record ELSE NoState

\* the branch of sendNextQuestion: the first question without an answer
NextCard(state) ==
    IF state.q1 = "" THEN "question1"
    ELSE IF state.q2 = "" THEN "question2"
    ELSE IF state.q3 = "" THEN "question3"
    ELSE "finalMatch"

\* every answer stored as the answer of question 1
RecordAnswerFirstSlot(state, questionId, answer) ==
    IF questionId \in Questions THEN [state EXCEPT !.q1 = answer] ELSE state

\* a chain whose last branch is a plain `else`
RecordAnswerElseThird(state, questionId, answer) ==
    IF questionId = 1 THEN [state EXCEPT !.q1 = answer]
    ELSE IF questionId = 2 THEN [state EXCEPT !.q2 = answer]
    ELSE [state EXCEPT !.q3 = answer]

\* an answer that clears the answers of the later questions
RecordAnswerClearsLater(state, questionId, answer) ==
    IF questionId = 1 THEN [state EXCEPT !.q1 = answer, !.q2 = "", !.q3 = ""]
    ELSE IF questionId = 2 THEN [state EXCEPT !.q2 = answer, !.q3 = ""]
    ELSE IF questionId = 3 THEN [state EXCEPT !.q3 = answer]
    ELSE state

\* `if (questionId === 1) state.q1 = answer; else if ...`
RecordAnswer(state, questionId, answer) ==
    IF questionId = 1 THEN [state EXCEPT !.q1 = answer]
    ELSE IF questionId = 2 THEN [state EXCEPT !.q2 = answer]
    ELSE IF questionId = 3 THEN [state EXCEPT !.q3 = answer]
    ELSE state

\* the card data that one of the two branches (start, answer) handles
SubmitHandled(data) ==
    \/ data.kind = "start"
    \/ data.kind = "answer" /\ data.questionId # 0 /\ data.value # ""

\* the start branch and the answer branch, shared by both handlers: the
\* answer is written to the object getUserState returned, and
\* sendNextQuestion reads the state again
Submit(us, c, data) ==
    IF data.kind = "start"
    THEN Ran(us, NextCard(Read(us, c)), FALSE)
    ELSE LET stored == [us EXCEPT ![c] = RecordAnswer(@, data.questionId, data.value)]
         IN Ran(stored, NextCard(Read(stored, c)), FALSE)

\* stripMentionsText: the text without its mentions
stripMentionsText(text) == SelectSeq(text, LAMBDA u : u # Mention)

LowerUnit(u) == IF u = "Hi" THEN "hi" ELSE IF u = "RESTART" THEN "restart" ELSE u

toLowerCase(text) == [i \in 1..Len(text) |-> LowerUnit(text[i])]

RECURSIVE TrimStart(_)
TrimStart(text) ==
    IF text # <<>> /\ Head(text) = Blank THEN TrimStart(Tail(text)) ELSE text

RECURSIVE TrimEnd(_)
TrimEnd(text) ==
    IF text # <<>> /\ text[Len(text)] = Blank
    THEN TrimEnd(SubSeq(text, 1, Len(text) - 1)) ELSE text

trim(text) == TrimEnd(TrimStart(text))

RestartPhrases ==
    {<<"hi">>, <<"hello">>, <<"hey">>, <<"start">>, <<"restart">>, <<"begin">>}

AllAnswered(state) == state.q1 # "" /\ state.q2 # "" /\ state.q3 # ""

\* `if (!state.hasStarted)`
WelcomeDue(state) == ~state.hasStarted

\* app.on("message", ...)
OnMessage(us, a) ==
    IF ~a.hasConversation
    THEN Ran(us, "", TRUE)               \* activity.conversation.id: TypeError
    ELSE LET c == a.conv
             state == Read(us, c)
             text == trim(toLowerCase(stripMentionsText(a.text)))
         IN IF a.type = "message" /\ a.value.kind # "none" /\ SubmitHandled(a.value)
            THEN Submit(us, c, a.value)
            ELSE IF a.type = "message" /\ a.text # <<>>
            THEN IF AllAnswered(state) /\ text \in RestartPhrases
                 THEN Ran([us EXCEPT ![c] = [Deleted(@, c) EXCEPT !.hasStarted = TRUE]],
                          "welcome", FALSE)
                 ELSE IF WelcomeDue(state)
                 THEN Ran([us EXCEPT ![c].hasStarted = TRUE], "welcome", FALSE)
                 ELSE Ran(us, "", FALSE)
            ELSE Ran(us, "", FALSE)

\* the invoke handler without its answer branch
OnInvokeStartOnly(us, a) ==
    IF a.type = "invoke" /\ a.name = "adaptiveCard/action" /\ a.hasConversation
       /\ a.actionType = "Action.Submit" /\ a.value.kind = "start"
    THEN Submit(us, a.conv, a.value)
    ELSE Ran(us, "", FALSE)

\* app.on("invoke", ...)
OnInvoke(us, a) ==
    IF a.type = "invoke" /\ a.name = "adaptiveCard/action" /\ a.hasConversation
       /\ a.actionType = "Action.Submit" /\ a.value.kind # "none" /\ SubmitHandled(a.value)
    THEN Submit(us, a.conv, a.value)
    ELSE Ran(us, "", FALSE)

\* no handler was called
NoCall(us) == [us |-> us, sends |-> <<>>, threw |-> FALSE]

\* a handler whose changes of userState are lost when its send fails
CallRollsBack(handler, us, a, sendFails, rethrows) ==
    LET r == IF handler = "message" THEN OnMessage(us, a) ELSE OnInvoke(us, a)
    IN [us |-> IF r.card # "" /\ sendFails THEN us ELSE r.us,
        sends |-> IF r.card = "" THEN <<>> ELSE <<[card |-> r.card, ok |-> ~sendFails]>>,
        threw |-> r.threw \/ (r.card # "" /\ sendFails /\ rethrows)]

\* one call of a handler with the context: the handler runs and its card goes
\* through context.send; a send that fails throws to the handler when
\* context.send lets the error through
Call(handler, us, a, sendFails, rethrows) ==
    LET r == IF handler = "message" THEN OnMessage(us, a) ELSE OnInvoke(us, a)
    IN [us |-> r.us,
        sends |-> IF r.card = "" THEN <<>> ELSE <<[card |-> r.card, ok |-> ~sendFails]>>,
        threw |-> r.threw \/ (r.card # "" /\ sendFails /\ rethrows)]

(***************************************************************************)
(* The dispatch of an activity to the handlers.  The router is the App's   *)
(* private router: whether it has a select function, whether select finds  *)
(* the route registered for the type of the activity, and whether it       *)
(* exposes routes.                                                         *)
(***************************************************************************)
Endpoints == Variants \cup {"adapter"}

Routers ==
    {r \in [hasSelect : BOOLEAN, selects : BOOLEAN, hasRoutes : BOOLEAN] :
        r.selects => r.hasSelect}

UsualRouter == [hasSelect |-> TRUE, selects |-> TRUE, hasRoutes |-> TRUE]

\* router.select(activity): the routes registered by app.on for the type
Selected(router, a) ==
    IF router.hasSelect /\ router.selects /\ a.type \in {"message", "invoke"}
    THEN <<a.type>> ELSE <<>>

\* whether the dispatch goes on to the handlers of router.routes
TryFallback(e, router, selected, called, aborted) ==
    /\ ~aborted
    /\ router.hasRoutes
    /\ CASE e = "messages.ts" -> ~router.hasSelect
         [] e = "part_000" -> FALSE
         [] OTHER -> ~called

Dispatch(e, us, a, router, fails) ==
    LET rethrows == e = "adapter" \/ SendCatch(AxiosNoResponseError).rethrows
        sel == Selected(router, a)
        first == IF sel # <<>> THEN Call(sel[1], us, a, 1 \in fails, rethrows)
                 ELSE NoCall(us)
        called == sel # <<>> /\ ~first.threw
        \* only runTeamsAppWithTurnContext wraps each selected route in try/catch
        aborted == sel # <<>> /\ first.threw /\ e # "adapter"
        fallback == TryFallback(e, router, sel, called, aborted)
        second == IF fallback
                  THEN Call("message", first.us, a, (Len(first.sends) + 1) \in fails,
                            rethrows)
                  ELSE NoCall(first.us)
    IN [us |-> second.us,
        sends |-> first.sends \o second.sends,
        calls |-> (IF sel # <<>> THEN 1 ELSE 0) + (IF fallback THEN 1 ELSE 0),
        handlersCalled |-> called \/ (fallback /\ ~second.threw),
        threw |-> aborted]

\* an activity arrives at /api/messages and is dispatched
Receive(e, a, router, fails) ==
    /\ LET d == Dispatch(e, userState, a, router, fails)
       IN /\ userState' = d.us
          /\ turn' = [NoTurn EXCEPT !.endpoint = e, !.activity = a,
                                    !.router = router, !.fails = fails,
                                    !.handlersCalled = d.handlersCalled,
                                    !.calls = d.calls, !.sends = d.sends,
                                    !.threw = d.threw]
    /\ UNCHANGED <<variant, env, now, tokenCacheByTenant, issued, tasks, calc>>

\* the activities of conversation c that the conversation flow is checked with
Texts == {<<"hi">>, <<Blank, "Hi", Blank>>, <<Mention, Blank, "RESTART">>, <<"what">>}

CardData ==
    {StartValue, AnswerData(0, "A"), AnswerData(1, ""),
     [kind |-> "other", questionId |-> 0, value |-> ""]}
    \cup {AnswerData(i, v) : i \in Questions \cup {4}, v \in AnswerValues}

BotActivities(c) ==
    {BotActivity("message", "", TRUE, c, <<>>, "", d) : d \in CardData \cup {NoValue}}
    \cup {BotActivity("message", "", TRUE, c, t, "", NoValue) : t \in Texts}
    \cup {BotActivity("message", "", TRUE, c, <<"hi">>, "", AnswerData(1, ""))}
    \cup {BotActivity("invoke", "adaptiveCard/action", TRUE, c, <<>>, "Action.Submit", d) :
            d \in {StartValue, NoValue, AnswerData(2, "A"), AnswerData(3, "B")}}
    \cup {BotActivity("invoke", "adaptiveCard/action", TRUE, c, <<>>, "Action.Execute",
                      StartValue),
          BotActivity("invoke", "composeExtension/query", TRUE, c, <<>>, "Action.Submit",
                      StartValue),
          BotActivity("invoke", "adaptiveCard/action", FALSE, "", <<>>, "Action.Submit",
                      StartValue),
          BotActivity("message", "", FALSE, "", <<"hi">>, "", NoValue)}

InitBot ==
    /\ variant = "messages.ts"
    /\ env = FullEnv
    /\ now = 0
    /\ tokenCacheByTenant = [T \in Tenants |-> NoEntry]
    /\ issued = 0
    /\ tasks = [t \in Tasks |-> IdleTask]
    /\ calc = NoCalc
    /\ userState = NoUserState
    /\ turn = NoTurn

\* a few activities of a second conversation c
OtherActivities(c) ==
    {BotActivity("message", "", TRUE, c, <<>>, "", d) : d \in {StartValue, AnswerData(1, "B")}}
    \cup {BotActivity("message", "", TRUE, c, <<"hi">>, "", NoValue)}

\* the conversation flow: activities of two conversations through the adapter
\* with the usual router and sends that succeed
NextBot ==
    \/ \E a \in BotActivities("c1") : Receive("adapter", a, UsualRouter, {})
    \/ \E a \in OtherActivities("c2") : Receive("adapter", a, UsualRouter, {})

SpecBot == InitBot /\ [][NextBot]_vars

\* the dispatch itself: one conversation, every endpoint, every shape of the
\* router, and sends that fail
DispatchActivities ==
    {BotActivity("message", "", TRUE, "c1", <<>>, "", d) : d \in {StartValue, AnswerData(1, "A")}}
    \cup {BotActivity("message", "", TRUE, "c1", <<"hi">>, "", NoValue),
          BotActivity("message", "", FALSE, "", <<"hi">>, "", NoValue),
          BotActivity("invoke", "adaptiveCard/action", TRUE, "c1", <<>>, "Action.Submit",
                      StartValue)}

\* which of the sends of a turn fail (the first, the second)
SendFailures == SUBSET {1, 2}

NextDispatch ==
    \E e \in Endpoints, a \in DispatchActivities, router \in Routers, fails \in SendFailures :
        Receive(e, a, router, fails)

SpecDispatch == InitBot /\ [][NextDispatch]_vars

\* activities posted to the webhook with a conversation id of the sender's
\* choice
ProtoActivities ==
    {BotActivity("message", "", TRUE, c, <<>>, "", d) :
        c \in {"c1", ProtoKey}, d \in {StartValue, AnswerData(1, "A"), AnswerData(2, "B")}}
    \cup {BotActivity("message", "", TRUE, c, <<"hi">>, "", NoValue) : c \in {"c1", ProtoKey}}

NextProto ==
    \E a \in ProtoActivities : Receive("messages.ts", a, UsualRouter, {})

SpecProto == InitBot /\ [][NextProto]_vars

(***************************************************************************)
(* The /chat test endpoint.                                                *)
(***************************************************************************)
ChatVariants == {"chat.ts", "chat part_000"}

\* the mock activity: type message, the text of the body (or its message, or
\* "hi"), the conversation test-conversation; the value of the body is not
\* part of it
MockActivity(body) ==
    BotActivity("message", "", TRUE, TestConversation,
                IF body.text # <<>> THEN body.text
                ELSE IF body.message # <<>> THEN body.message
                ELSE <<"hi">>,
                "", NoValue)

\* `if (!handlersCalled)`: the manual bot logic
ChatFallback(body) ==
    IF body.value.kind = "start" THEN <<"question1">>
    ELSE IF body.value.kind = "answer"
    THEN (IF body.value.questionId = 1 THEN <<"question2">>
          ELSE IF body.value.questionId = 2 THEN <<"question3">>
          ELSE IF body.value.questionId = 3 THEN <<"finalMatch">>
          ELSE <<>>)
    ELSE IF body.value.kind = "none" /\ body.text # <<>> THEN <<"welcome">>
    ELSE <<>>

\* a request to /chat; handlersFound: router.routes has a route named message
\* that exposes its handlers
Chat(v, method, body, handlersFound) ==
    /\ v = "chat part_000" => method = "POST"
    /\ IF method # "POST"
       THEN /\ turn' = [NoTurn EXCEPT !.endpoint = v, !.http = 405, !.shape = "error"]
            /\ UNCHANGED userState
       ELSE LET a == MockActivity(body)
                run == IF handlersFound THEN Call("message", userState, a, FALSE, FALSE)
                       ELSE NoCall(userState)
                handlersCalled == handlersFound /\ ~run.threw
            IN /\ userState' = run.us
               /\ turn' = [NoTurn EXCEPT
                              !.endpoint = v, !.activity = a, !.body = body,
                              !.handlersCalled = handlersCalled,
                              !.calls = IF handlersFound THEN 1 ELSE 0,
                              !.sends = run.sends, !.http = 200, !.shape = "reply",
                              !.messages = IF handlersCalled
                                           THEN [i \in 1..Len(run.sends) |-> run.sends[i].card]
                                           ELSE ChatFallback(body),
                              !.received = a.text]
    /\ UNCHANGED <<variant, env, now, tokenCacheByTenant, issued, tasks, calc>>

ChatBodies ==
    [text : {<<>>, <<"Hi">>, <<"what">>},
     message : {<<>>, <<"hello">>},
     value : {NoValue, StartValue, [kind |-> "other", questionId |-> 0, value |-> ""]}
             \cup {AnswerData(i, "A") : i \in Questions \cup {4}}]

NextChat ==
    \E v \in ChatVariants, method \in {"GET", "POST"}, body \in ChatBodies,
       handlersFound \in BOOLEAN :
        Chat(v, method, body, handlersFound)

SpecChat == InitBot /\ [][NextChat]_vars

(***************************************************************************)
(* The /api/messages handlers that hand the request to the CloudAdapter.   *)
(* messages.ts passes res itself to adapter.process; part_002 passes a     *)
(* webResponse whose set, end and send do nothing and answers on res       *)
(* itself.  What the adapter does with a POST is the library's: whether    *)
(* it ran the turn logic, whether it wrote a response to the response      *)
(* object it was given, and whether it threw; when it resolves it has      *)
(* answered.                                                               *)
(***************************************************************************)
AdapterDrafts == {"adapter", "part_002"}

ProcessOutcomes ==
    {o \in [ran : BOOLEAN, wrote : BOOLEAN, threw : BOOLEAN] : ~o.threw => o.wrote}

\* the status the adapter answers with
AdapterStatus(o) == IF o.ran THEN 200 ELSE 401

\* a catch that answers 500 whatever was sent before
CatchResponseAlways(written) == Respond(written, 500)

\* `if (!res.headersSent) res.status(500).json(...)` in the catch
CatchResponse(written) == IF written # <<>> THEN written ELSE Respond(written, 500)

\* the responses written to res while the POST is handled
PostResponses(h, o) ==
    LET byAdapter == IF h = "adapter" /\ o.wrote THEN Respond(<<>>, AdapterStatus(o))
                     ELSE <<>>
    IN IF o.threw THEN CatchResponse(byAdapter)
       ELSE IF h = "part_002" THEN Respond(byAdapter, 200)
       ELSE byAdapter

\* a request to /api/messages of draft h
AdapterRequest(h, method, a, o) ==
    /\ variant = h
    /\ IF method # "POST"
       THEN /\ turn' = [NoTurn EXCEPT !.endpoint = h, !.method = method,
                                      !.responses = Respond(<<>>, 405)]
            /\ UNCHANGED userState
       ELSE LET d == IF o.ran THEN Dispatch("adapter", userState, a, UsualRouter, {})
                     ELSE [us |-> userState, sends |-> <<>>, calls |-> 0,
                           handlersCalled |-> FALSE, threw |-> FALSE]
            IN /\ userState' = d.us
               /\ turn' = [NoTurn EXCEPT !.endpoint = h, !.method = method,
                                         !.activity = a, !.outcome = o,
                                         !.router = UsualRouter,
                                         !.handlersCalled = d.handlersCalled,
                                         !.calls = d.calls, !.sends = d.sends,
                                         !.responses = PostResponses(h, o)]
    /\ UNCHANGED <<variant, env, now, tokenCacheByTenant, issued, tasks, calc>>

\* every draft of the /api/messages handler, one request at a time
InitHttp ==
    /\ variant \in Variants \cup AdapterDrafts
    /\ env = FullEnv
    /\ now = 0
    /\ tokenCacheByTenant = [T \in Tenants |-> NoEntry]
    /\ issued = 0
    /\ tasks = [t \in Tasks |-> IdleTask]
    /\ calc = NoCalc
    /\ userState = NoUserState
    /\ turn = NoTurn

NextHttp ==
    \/ /\ variant \in Variants
       /\ \E r \in Requests(CoreActivities(1)) : Handler(1, r)
    \/ \E a \in CoreIssuerAnswers(tasks[1].requestNo, tasks[1].tenant) : IssuerRespond(1, a)
    \/ \E a \in CoreConnectorAnswers : ConnectorRespond(1, a)
    \/ Finish(1)
    \/ \E h \in AdapterDrafts, method \in {"GET", "POST"}, a \in OtherActivities("c1"),
          o \in ProcessOutcomes :
            AdapterRequest(h, method, a, o)

SpecHttp == InitHttp /\ [][NextHttp]_vars

(***************************************************************************)
(* Network calls that get no answer.  axios gives up a call after the      *)
(* `timeout` of its config and rejects without a response; a call without  *)
(* the option (the default, 0) has no timer.  The timer is the only step   *)
(* of a waiting task that the runtime is certain to take: whether and when *)
(* the issuer or the Connector answers is up to them.                      *)
(***************************************************************************)
RequestTimeoutMs(v, call) ==
    IF call = "token"
    THEN (IF v = "part_003" THEN 8000 ELSE IF v = "part_004" THEN 10000 ELSE 0)
    ELSE 10000

Unanswered == [kind |-> "none", status |-> 0, data |-> "", wwwAuth |-> "", token |-> NoToken]

\* the timer of the call that task t waits for goes off
Timeout(t) ==
    \/ /\ tasks[t].pc = "token_wait"
       /\ RequestTimeoutMs(variant, "token") > 0
       /\ IssuerRespond(t, Unanswered)
    \/ /\ tasks[t].pc = "post_wait"
       /\ RequestTimeoutMs(variant, "delivery") > 0
       /\ ConnectorRespond(t, Unanswered)

NextLive ==
    \/ \E r \in Requests(CoreActivities(1)) : Handler(1, r)
    \/ \E a \in CoreIssuerAnswers(tasks[1].requestNo, tasks[1].tenant) : IssuerRespond(1, a)
    \/ \E a \in CoreConnectorAnswers : ConnectorRespond(1, a)
    \/ Timeout(1)
    \/ Finish(1)
    \/ Tick

SpecLive == InitDelivery /\ [][NextLive]_vars /\ WF_vars(Timeout(1))

(***************************************************************************)
(* Properties.                                                             *)
(***************************************************************************)
\* task t enters getBotFrameworkToken in this step (credentials and tenant
\* were accepted)
CallsTokenProvider(t) ==
    /\ tasks[t].pc = "idle"
    /\ tasks'[t].pc \in {"token_wait", "post_wait"}

\* C1: a call of getBotFrameworkToken for tenant T made while the cache holds
\* an entry for T with now < expMs - 5 minutes makes no request to the issuer
\* and returns the token of that entry, which is the token string the fetch
\* that wrote the entry returned; fetch and second call make one request.
C1_CachedTokenReused ==
    [][\A t \in Tasks :
         (/\ CallsTokenProvider(t)
          /\ tokenCacheByTenant[tasks'[t].tenant].present
          /\ now < tokenCacheByTenant[tasks'[t].tenant].expMs - 300000)
         => /\ issued' = issued
            /\ tasks'[t].issuerCalls = 0
            /\ tasks'[t].token = tokenCacheByTenant[tasks'[t].tenant].token
            /\ tasks'[t].token.id \in 1..issued
            /\ tokenCacheByTenant' = tokenCacheByTenant]_vars

\* a second call was served from the cache after exactly one issuer request
C1_Witness ==
    \E t \in Tasks :
        /\ tasks[t].cacheHit
        /\ tasks[t].issuerCalls = 0
        /\ issued = 1
        /\ tasks[t].token.id = 1
        /\ tasks[t].token = tokenCacheByTenant[tasks[t].tenant].token

\* C2: a call of getBotFrameworkToken for tenant T made while the cache holds
\* an entry for T with now >= expMs - 300000 (the boundary instant included)
\* does not return the cached token: it makes exactly one issuer request.
C2_StaleEntryRefetched ==
    [][\A t \in Tasks :
         (/\ CallsTokenProvider(t)
          /\ tokenCacheByTenant[tasks'[t].tenant].present
          /\ now >= tokenCacheByTenant[tasks'[t].tenant].expMs - 300000)
         => /\ issued' = issued + 1
            /\ tasks'[t].pc = "token_wait"
            /\ tasks'[t].issuerCalls = 1
            /\ ~tasks'[t].cacheHit
            /\ tasks'[t].token = NoToken]_vars

\* a call made exactly at expMs - skew is waiting for the issuer (one webhook
\* at a time: the entry was there when the call began, and the clock has not
\* passed the boundary since)
C2_Witness ==
    /\ tasks[1].pc = "token_wait"
    /\ tokenCacheByTenant[tasks[1].tenant].present
    /\ now = tokenCacheByTenant[tasks[1].tenant].expMs - 300000
    /\ tasks[1].requestNo = issued
    /\ tokenCacheByTenant[tasks[1].tenant].token.id < issued

\* task t made an issuer request that was answered 2xx with an access_token,
\* and getBotFrameworkToken returned that token to send
FetchedAndReturned(t) ==
    /\ tasks[t].pc \in {"post_wait", "done"}
    /\ tasks[t].issuerCalls = 1
    /\ tasks[t].issuerAnswer.kind = "response"
    /\ tasks[t].issuerAnswer.status \in 200..299
    /\ tasks[t].issuerAnswer.token # NoToken
    /\ tasks[t].token = tasks[t].issuerAnswer.token

\* the (token, expMs) pair of an access_token
PairOf(token) == [present |-> TRUE, token |-> token, expMs |-> token.payload.exp * 1000]

\* a token whose middle segment decodes to a payload with a non-zero exp
HasExpiry(token) ==
    token.shape = "jwt" /\ token.payload.hasExp /\ token.payload.exp # 0

\* C3 as stated: after every successful token fetch (one webhook at a time, so
\* nothing else has written since) the cache holds the fetched token with
\* expMs = exp * 1000.
C3_EveryFetchCached ==
    FetchedAndReturned(1) => tokenCacheByTenant[tasks[1].tenant] = PairOf(tasks[1].token)

\* C3 amended: after a successful token fetch whose token decodes to a payload
\* with a non-zero exp the cache holds that token with expMs = exp * 1000, and
\* the entry counts as valid exactly while now < exp * 1000 - 300000; a
\* returned token without such an exp is not the token of the entry.
C3_FetchWithExpCached ==
    FetchedAndReturned(1) =>
        LET entry == tokenCacheByTenant[tasks[1].tenant]
            token == tasks[1].token
        IN IF HasExpiry(token)
           THEN /\ entry = [present |-> TRUE, token |-> token,
                            expMs |-> token.payload.exp * 1000]
                /\ CacheValid(entry, now) <=> now < token.payload.exp * 1000 - 300000
           ELSE entry.token # token

\* a fetched token with exp = 360 s is in the cache with expMs = 360000
C3_Witness ==
    /\ FetchedAndReturned(1)
    /\ tasks[1].token.payload.exp = 360
    /\ tokenCacheByTenant[tasks[1].tenant] =
            [present |-> TRUE, token |-> tasks[1].token, expMs |-> 360000]

\* two reply attempts for the same tenant have both finished, and no issuer
\* request other than theirs was ever made: no token was cached when they began
TwoAttemptsFinished(T) ==
    /\ \A t \in {1, 2} : tasks[t].pc = "done" /\ tasks[t].tenant = T
    /\ issued = tasks[1].issuerCalls + tasks[2].issuerCalls

\* the attempts of {1, 2} whose issuer response carried a token with a
\* non-zero exp
CacheableResponses ==
    {t \in {1, 2} : /\ tasks[t].issuerCalls = 1
                    /\ tasks[t].issuerAnswer.kind = "response"
                    /\ tasks[t].issuerAnswer.status \in 200..299
                    /\ HasExpiry(tasks[t].issuerAnswer.token)}

\* C4 as stated: after two reply attempts for the same tenant that began with
\* no cached token, the cache holds an entry for the tenant, and it is the
\* (token, expMs) pair of one of the issuer responses.
C4_OneEntryAfterTwoAttempts ==
    \A T \in Tenants :
        TwoAttemptsFinished(T) =>
            /\ tokenCacheByTenant[T].present
            /\ \E t \in {1, 2} :
                  /\ tasks[t].issuerCalls = 1
                  /\ tokenCacheByTenant[T] = PairOf(tasks[t].issuerAnswer.token)

\* C4 amended: after two reply attempts for the same tenant that began with no
\* cached token, the cache holds an entry for the tenant exactly when one of
\* the issuer responses carried a token with a non-zero exp, the entry is then
\* the complete (token, expMs) pair of one such response, and the entries of
\* the other tenants are untouched.
C4_EntryIsOneResponse ==
    \A T \in Tenants :
        TwoAttemptsFinished(T) =>
            /\ tokenCacheByTenant[T].present <=> CacheableResponses # {}
            /\ tokenCacheByTenant[T].present =>
                  \E t \in CacheableResponses :
                      tokenCacheByTenant[T] = PairOf(tasks[t].issuerAnswer.token)
            /\ ~tokenCacheByTenant[T].present => tokenCacheByTenant[T] = NoEntry
            /\ \A U \in Tenants \ {T} : tokenCacheByTenant[U] = NoEntry

\* both attempts overlapped (each made its own issuer request at time 0 although
\* the other's token would have been valid), both got a token, one entry is left
C4_Witness ==
    /\ TwoAttemptsFinished("T1")
    /\ now = 0
    /\ CacheableResponses = {1, 2}
    /\ tasks[1].issuerAnswer.token # tasks[2].issuerAnswer.token
    /\ \E t \in {1, 2} : tokenCacheByTenant["T1"] = PairOf(tasks[t].issuerAnswer.token)

\* the delivery POST of task t has settled
Delivered(t) == tasks[t].pc = "done" /\ tasks[t].connectorAnswer.kind # "pending"

\* C5: when the Connector answers the delivery POST with 401 and a
\* WWW-Authenticate header, the error sendToConversation throws to send
\* carries status 401 and that header value.
C5_ChallengeSurfaced ==
    (/\ Delivered(1)
     /\ tasks[1].connectorAnswer.status = 401
     /\ tasks[1].connectorAnswer.wwwAuth # "")
    => /\ tasks[1].err.msgStatus = 401 \/ tasks[1].err.response.status = 401
       /\ tasks[1].err.hasResponse
       /\ tasks[1].err.response.wwwAuth = tasks[1].connectorAnswer.wwwAuth

Range(seq) == {seq[i] : i \in 1..Len(seq)}

\* the failure of the delivery of task t is reported as `no response`: by the
\* log line of sendToConversation, or by an axios error without a response
ReportedNoResponse(t) ==
    \/ "no response" \in Range(tasks[t].deliveryLog)
    \/ tasks[t].err.name = "AxiosError" /\ ~tasks[t].err.hasResponse

\* C6: a delivery is reported as `no response` exactly when no HTTP response
\* was received; one that received a non-2xx response never is.
C6_NoResponseOnlyWithoutResponse ==
    Delivered(1) => (ReportedNoResponse(1) <=> tasks[1].connectorAnswer.kind = "none")

\* C7: sendToConversation throws exactly when the status of the Connector's
\* response is below 200 or at least 300, or no response was received.
C7_ThrowsIffNot2xx ==
    Delivered(1) =>
        /\ (tasks[1].failedIn = "delivery") <=>
              \/ tasks[1].connectorAnswer.kind = "none"
              \/ tasks[1].connectorAnswer.status < 200
              \/ tasks[1].connectorAnswer.status > 299
        /\ (tasks[1].failedIn = "delivery") <=> (tasks[1].err # NoErr)
        /\ tasks[1].failedIn \in {"delivery", "none"}

\* status 299 is delivered without a throw
C7_Witness ==
    /\ Delivered(1)
    /\ tasks[1].connectorAnswer.status = 299
    /\ tasks[1].failedIn = "none"
    /\ tasks[1].err = NoErr

\* the issuer answered the token request of task t with a non-2xx status
IssuerRefused(t) ==
    /\ tasks[t].issuerAnswer.kind = "response"
    /\ tasks[t].issuerAnswer.status \notin 200..299

\* C8: when the issuer answers the token request with a non-2xx status,
\* getBotFrameworkToken throws, no token is returned and no delivery POST is
\* made, and the error carries the issuer's status code and response body.
C8_IssuerRefusalSurfaced ==
    \A t \in Tasks :
        IssuerRefused(t) =>
            /\ tasks[t].pc = "done"
            /\ tasks[t].failedIn = "token"
            /\ tasks[t].token = NoToken
            /\ tasks[t].posts = 0
            /\ tasks[t].err.hasResponse
            /\ tasks[t].err.response.status = tasks[t].issuerAnswer.status
            /\ tasks[t].err.response.data = tasks[t].issuerAnswer.data

\* the issuer's 400 {"error":"invalid_client"} is in the error send caught
C8_Witness ==
    /\ IssuerRefused(1)
    /\ tasks[1].issuerAnswer.status = 400
    /\ tasks[1].err.response.status = 400
    /\ tasks[1].err.response.data = "invalid_client"

\* the issuer answered the token request of task t 2xx without access_token
AnsweredWithoutToken(t) ==
    /\ tasks[t].issuerAnswer.kind = "response"
    /\ tasks[t].issuerAnswer.status \in 200..299
    /\ tasks[t].issuerAnswer.token = NoToken

\* C9: a 2xx issuer response without access_token makes getBotFrameworkToken
\* fail, without a token, with an error that names the missing access_token
\* and is neither the non-2xx error (an error with a response) nor the
\* network/timeout error (an axios error without one).
C9_MissingTokenNamed ==
    \A t \in Tasks :
        AnsweredWithoutToken(t) =>
            /\ tasks[t].pc = "done"
            /\ tasks[t].failedIn = "token"
            /\ tasks[t].token = NoToken
            /\ tasks[t].err.message \in {"No access_token in response",
                   "No access_token in response from Microsoft OAuth endpoint"}
            /\ ~tasks[t].err.hasResponse
            /\ tasks[t].err.name # "AxiosError"

\* the issuer's answer to task t with the claims of its token set to the
\* expected audience, tenant and client id
WithMatchingClaims(t) ==
    [tasks[t].issuerAnswer EXCEPT
        !.token.payload.aud = BotAudience,
        !.token.payload.tid = tasks[t].tenant,
        !.token.payload.appid = ClientId]

\* C10: for a token whose aud, tid or appid does not match, the token provider
\* returns the token and writes the cache entry just as it does for the same
\* token with matching claims.
C10_MismatchNotFatal ==
    (/\ tasks[1].issuerAnswer.kind = "response"
     /\ tasks[1].issuerAnswer.token.shape = "jwt")
    => LET matching == WithMatchingClaims(1)
           expected == TokenOutcome(variant, axiosPost(matching, FALSE), matching,
                                    ClientId, tasks[1].tenant)
       IN /\ expected.returned <=> tasks[1].failedIn # "token"
          /\ expected.returned => tasks[1].token = tasks[1].issuerAnswer.token
          /\ ~expected.returned => tasks[1].err = expected.err
          /\ (expected.returned /\ expected.put) =>
                tokenCacheByTenant[tasks[1].tenant] =
                    [present |-> TRUE, token |-> tasks[1].token,
                     expMs |-> expected.entry.expMs]
          /\ (expected.returned /\ ~expected.put) =>
                tokenCacheByTenant[tasks[1].tenant].token # tasks[1].token

\* a token with a foreign tenant id was warned about, returned and cached
C10_Witness ==
    /\ FetchedAndReturned(1)
    /\ "tid" \in tasks[1].warnings
    /\ tasks[1].token.payload.tid # tasks[1].tenant
    /\ tokenCacheByTenant[tasks[1].tenant] = PairOf(tasks[1].token)

\* the webhook of task t carried an activity, and the handler went on to
\* process it
Processed(t) == tasks[t].activity # NoActivity

\* the credentials that are missing for the reply of task t
MissingCredentials(t) ==
    (IF env.CLIENT_ID = "" THEN {"clientId"} ELSE {})
    \cup (IF env.CLIENT_SECRET = "" THEN {"clientSecret"} ELSE {})
    \cup (IF env.MS_TENANT_ID = "" /\ tasks[t].activity.tenant = "" THEN {"tenantId"} ELSE {})

\* the credentials an error message names
NamedCredentials(message) ==
    (IF message \in {"CLIENT_ID environment variable must be set",
                     "CLIENT_ID and CLIENT_SECRET must be set"}
     THEN {"clientId"} ELSE {})
    \cup (IF message \in {"CLIENT_SECRET environment variable must be set",
                          "CLIENT_ID and CLIENT_SECRET must be set"}
          THEN {"clientSecret"} ELSE {})
    \cup (IF message \in {"MS_TENANT_ID environment variable must be set",
                          "Tenant ID not found in activity.channelData.tenant.id and MS_TENANT_ID not set"}
          THEN {"tenantId"} ELSE {})

\* C11: when clientId, clientSecret or tenantId is missing for a reply, the
\* attempt ends as a configuration error without an issuer request and
\* without a delivery POST, and the error names a missing credential and none
\* that is set.
C11_ConfigErrorNamesCredential ==
    (Processed(1) /\ MissingCredentials(1) # {}) =>
        /\ tasks[1].pc = "done"
        /\ tasks[1].failedIn = "config"
        /\ tasks[1].issuerCalls = 0
        /\ tasks[1].posts = 0
        /\ NamedCredentials(tasks[1].err.message) # {}
        /\ NamedCredentials(tasks[1].err.message) \subseteq MissingCredentials(1)

\* C12: for every webhook that carried an activity the handler answered 200,
\* the acknowledgement is the first thing that happened for it, before every
\* issuer request and delivery POST, and the answer stays 200 whatever became
\* of the token request and of the delivery.
C12_AckBeforeProcessing ==
    \A t \in Tasks :
        Processed(t) =>
            /\ tasks[t].http = 200
            /\ tasks[t].events # <<>>
            /\ tasks[t].events[1] = "ack"
            /\ \A i \in 2..Len(tasks[t].events) : tasks[t].events[i] \in {"issuer", "post"}
            /\ Len(tasks[t].events) = 1 + tasks[t].issuerCalls + tasks[t].posts

\* a delivery that failed after the acknowledgement, the token request and the
\* POST, in this order
C12_Witness ==
    /\ tasks[1].pc = "done"
    /\ tasks[1].failedIn = "delivery"
    /\ tasks[1].http = 200
    /\ tasks[1].events = <<"ack", "issuer", "post">>

\* C13: context.send never throws and the background task never ends with an
\* unhandled rejection; a failure raised inside send (configuration, token or
\* delivery) is reported by the catch of send, and one raised by the
\* background task before send exists is reported by the catch of the task.
C13_FailuresStayInside ==
    \A t \in Tasks :
        /\ ~tasks[t].sendThrew
        /\ ~tasks[t].unhandled
        /\ tasks[t].failedIn # "none" =>
              /\ tasks[t].pc = "done"
              /\ tasks[t].err # NoErr
              /\ tasks[t].reportedBy =
                    IF variant = "part_004" /\ tasks[t].failedIn = "config"
                    THEN "task" ELSE "send"

\* a rejected delivery was reported by send, which returned normally
C13_Witness ==
    /\ tasks[1].pc = "done"
    /\ tasks[1].failedIn = "delivery"
    /\ tasks[1].connectorAnswer.status = 401
    /\ tasks[1].reportedBy = "send"
    /\ ~tasks[1].sendThrew

\* the number of times event e occurs in the events of task t
Occurrences(t, e) == Cardinality({i \in 1..Len(tasks[t].events) : tasks[t].events[i] = e})

\* C14: one invocation of context.send makes at most one issuer request and
\* at most one delivery POST, whatever the outcome of either.
C14_NoRetry ==
    \A t \in Tasks :
        /\ tasks[t].issuerCalls <= 1
        /\ tasks[t].posts <= 1
        /\ Occurrences(t, "issuer") <= 1
        /\ Occurrences(t, "post") <= 1
        /\ tasks[t].issuerCalls = 1 => tasks[t].requestNo \in 1..issued

\* a token request that got no response ended the send after that one request
C14_Witness ==
    /\ tasks[1].pc = "done"
    /\ tasks[1].failedIn = "token"
    /\ tasks[1].issuerAnswer.kind = "none"
    /\ tasks[1].issuerCalls = 1
    /\ tasks[1].posts = 0

\* C15: the delivery POST carries Authorization: Bearer {token} with the
\* complete token string the token provider returned for the reply.
C15_BearerIsCompleteToken ==
    \A t \in Tasks :
        tasks[t].posts >= 1 =>
            /\ tasks[t].token # NoToken
            /\ tasks[t].bearer.token = tasks[t].token
            /\ tasks[t].bearer.truncatedTo = 0

\* the url of the reply to the webhook of task t
ExpectedUrl(t) ==
    <<"https://smba", ToString(t), "/v3/conversations/",
      "a", "%", "3", "A", ToString(t), "/activities">>

\* C16: the reply of every task is posted to the serviceUrl of its own
\* activity, less the trailing slash, and to the conversation id of its own
\* activity, also while other webhooks are being processed.
C16_ReplyGoesToOwnConversation ==
    \A t \in Tasks :
        tasks[t].posts >= 1 =>
            /\ tasks[t].activity \in CoreActivities(t)
            /\ tasks[t].postUrl = ExpectedUrl(t)
            /\ \A u \in Tasks \ {t} : tasks[t].postUrl # ExpectedUrl(u)

\* two replies are in flight at once, each to its own conversation
C16_Witness ==
    /\ tasks[1].pc = "post_wait"
    /\ tasks[2].pc = "post_wait"
    /\ tasks[1].issuerCalls = 1
    /\ tasks[1].postUrl = <<"https://smba", "1", "/v3/conversations/",
                            "a", "%", "3", "A", "1", "/activities">>
    /\ tasks[2].postUrl = <<"https://smba", "2", "/v3/conversations/",
                            "a", "%", "3", "A", "2", "/activities">>

\* C17: no delivery POST is issued for an activity whose serviceUrl is empty
\* or whose conversation id is empty.
C17_NoPostWithoutDestination ==
    \A t \in Tasks :
        tasks[t].posts >= 1 =>
            /\ tasks[t].activity.serviceUrl # <<>>
            /\ tasks[t].activity.convId # <<>>

\* C18: for a serviceUrl that does not end in '/', the url built from it and
\* the url built from it with '/' added are the same; and the trim applied to
\* its own result changes nothing.
C18_SlashInsensitiveAndIdempotent ==
    /\ (/\ calc.fn = "url"
        /\ Len(calc.out) = 2
        /\ (calc.arg = <<>> \/ calc.arg[Len(calc.arg)] # "/"))
       => calc.out[1] = calc.out[2]
    /\ (calc.fn = "trim" /\ Len(calc.out) = 2) => calc.out[2] = calc.out[1]

\* the character a percent escape stands for
Unescaped(h, l) ==
    CASE <<h, l>> = <<"2", "F">> -> "/"
      [] <<h, l>> = <<"2", "3">> -> "#"
      [] <<h, l>> = <<"2", "5">> -> "%"
      [] <<h, l>> = <<"3", "A">> -> ":"
      [] <<h, l>> = <<"3", "F">> -> "?"
      [] <<h, l>> = <<"2", "6">> -> "&"
      [] <<h, l>> = <<"3", "D">> -> "="
      [] <<h, l>> = <<"2", "B">> -> "+"
      [] <<h, l>> = <<"2", "0">> -> " "
      [] OTHER -> "<invalid>"

RECURSIVE decodeURIComponent(_)
\* percent-decoding of a path segment
decodeURIComponent(s) ==
    IF s = <<>> THEN <<>>
    ELSE IF Head(s) = "%" /\ Len(s) >= 3
         THEN <<Unescaped(s[2], s[3])>> \o decodeURIComponent(SubSeq(s, 4, Len(s)))
         ELSE <<Head(s)>> \o decodeURIComponent(Tail(s))

\* what stands between /v3/conversations/ and /activities in a delivery url
SegmentOf(url) ==
    LET i == CHOOSE i \in 1..Len(url) : url[i] = "/v3/conversations/"
    IN SubSeq(url, i + 1, Len(url) - 1)

\* C19: the path segment sendToConversation inserts between
\* /v3/conversations/ and /activities has no '/' and no '#' in it and
\* percent-decodes to the conversation id, also for ids that contain '/', '#'
\* or '%'.
C19_SegmentEscapedAndRoundTrips ==
    calc.fn = "url" =>
        \A k \in 1..Len(calc.out) :
            LET url == calc.out[k]
            IN /\ url[Len(url)] = "/activities"
               /\ "/" \notin Range(SegmentOf(url))
               /\ "#" \notin Range(SegmentOf(url))
               /\ decodeURIComponent(SegmentOf(url)) = calc.conv

\* the id a/# went into the url as a%2F%23
C19_Witness ==
    /\ calc.fn = "url"
    /\ calc.conv = <<"a", "/", "#">>
    /\ calc.out # <<>>
    /\ SegmentOf(calc.out[1]) = <<"a", "%", "2", "F", "%", "2", "3">>

\* C20: the conversion of the middle segment replaces every '-' by '+' and
\* every '_' by '/', keeps the other characters, and appends no '=' for a
\* length of 0 mod 4, '==' for 2 mod 4 and '=' for 3 mod 4, so that the length
\* of the result is a multiple of 4 in these cases.
C20_Base64UrlConverted ==
    (calc.fn = "base64" /\ calc.out # <<>>) =>
        LET seg == calc.arg
            b64 == calc.out[1]
            n == Len(seg)
        IN /\ Len(b64) >= n
           /\ \A i \in 1..n :
                 b64[i] = CASE seg[i] = "-" -> "+" [] seg[i] = "_" -> "/" [] OTHER -> seg[i]
           /\ n % 4 = 0 => Len(b64) = n
           /\ n % 4 = 2 => Len(b64) = n + 2 /\ b64[n + 1] = "=" /\ b64[n + 2] = "="
           /\ n % 4 = 3 => Len(b64) = n + 1 /\ b64[n + 1] = "="
           /\ n % 4 # 1 => Len(b64) % 4 = 0

\* the two-character segment -_ became +/==
C20_Witness ==
    /\ calc.fn = "base64"
    /\ calc.arg = <<"-", "_">>
    /\ calc.out = << <<"+", "/", "=", "=">> >>


\* C21: in every reachable state, also while several token requests are in
\* flight, every cache entry is a complete pair: it is either absent or holds
\* a token the issuer sent together with the expiry of that same token
\* (expMs = exp * 1000 of the token's own payload).
C21_EntryIsCompletePair ==
    \A T \in Tenants :
        LET entry == tokenCacheByTenant[T]
        IN IF entry.present
           THEN /\ entry.token.id \in 1..issued
                /\ HasExpiry(entry.token)
                /\ entry = PairOf(entry.token)
           ELSE entry = NoEntry

\* two token requests for T1 overlapped and were answered with different
\* expiries; the second write replaced the first, and the entry is the pair of
\* one response while the other task still holds the other token
C21_Witness ==
    /\ \A t \in {1, 2} : tasks[t].tenant = "T1" /\ tasks[t].issuerCalls = 1
                         /\ tasks[t].pc \in {"post_wait", "done"}
    /\ tasks[1].token.payload.exp # tasks[2].token.payload.exp
    /\ \E t \in {1, 2} : tokenCacheByTenant["T1"] = PairOf(tasks[t].token)

\* C30 as stated: at any time at most one issuer request for a tenant is in
\* flight.
C30_OneRequestInFlight ==
    \A T \in Tenants :
        Cardinality({t \in Tasks : tasks[t].pc = "token_wait" /\ tasks[t].tenant = T}) <= 1


\* the cards passed to context.send while the last activity was handled
Cards(sends) == [i \in 1..Len(sends) |-> sends[i].card]

\* the recorded answer of question i ("" when there is none)
Answer(state, i) == IF i = 1 THEN state.q1 ELSE IF i = 2 THEN state.q2 ELSE state.q3

QuestionCard(i) == IF i = 1 THEN "question1" ELSE IF i = 2 THEN "question2" ELSE "question3"

\* an activity whose card data reaches the bot: a message, or an
\* adaptiveCard/action invoke with an Action.Submit
Submitted(a) ==
    /\ a.hasConversation
    /\ \/ a.type = "message"
       \/ a.type = "invoke" /\ a.name = "adaptiveCard/action" /\ a.actionType = "Action.Submit"

IsAnswerAction(a, i) ==
    Submitted(a) /\ a.value.kind = "answer" /\ a.value.questionId = i /\ a.value.value # ""

IsStartAction(a) == Submitted(a) /\ a.value.kind = "start"

IsTextOnly(a) ==
    a.type = "message" /\ a.hasConversation /\ a.text # <<>> /\ a.value.kind = "none"

Progress(state) ==
    IF state.q1 = "" THEN 0 ELSE IF state.q2 = "" THEN 1 ELSE IF state.q3 = "" THEN 2 ELSE 3

\* C23 as stated: every transition of a conversation stays where it is, goes
\* to the immediate successor, or goes from Completed back to the beginning,
\* and an answer for question i is recorded only while the conversation is
\* awaiting question i.
C23_LinearProgress ==
    [][\A c \in DOMAIN userState :
          /\ \/ Progress(userState'[c]) \in {Progress(userState[c]), Progress(userState[c]) + 1}
             \/ Progress(userState[c]) = 3 /\ Progress(userState'[c]) = 0
          /\ \A i \in Questions :
                (Answer(userState'[c], i) # Answer(userState[c], i)
                    /\ Answer(userState'[c], i) # "")
                => Progress(userState[c]) = i - 1
      ]_vars

\* C24 as stated: a text message equal (trimmed, lower-cased) to a restart
\* phrase that arrives when all three answers are recorded sends the welcome
\* card and leaves the conversation in the state of one that never started.
C24_RestartResets ==
    [][\A c \in DOMAIN userState :
          (/\ AllAnswered(userState[c])
           /\ IsTextOnly(turn'.activity)
           /\ turn'.activity.conv = c
           /\ trim(toLowerCase(turn'.activity.text)) \in RestartPhrases)
          => /\ Cards(turn'.sends) = <<"welcome">>
             /\ userState'[c] = NoState
      ]_vars

\* C25 as stated: a start action makes the bot send the Question 1 card.
C25_StartSendsQuestion1 ==
    IsStartAction(turn.activity) => Cards(turn.sends) = <<"question1">>

\* C26 as stated: a message activity with text and no card value makes the bot
\* send the welcome card.
C26_TextGetsWelcome ==
    IsTextOnly(turn.activity) => Cards(turn.sends) = <<"welcome">>


\* C27 as stated: while one inbound activity is handled, context.send is
\* called at most once, also when a route handler throws and the handlers of
\* router.routes are tried.
C27_OneReplyPerActivity == Len(turn.sends) <= 1


\* C29 as stated: every request to /chat is answered with
\* {success: true, messages, received}; a body with only text gets the
\* welcome card, value.type = start the Question 1 card, and an answer with
\* questionId 1, 2 or 3 the Question 2 card, the Question 3 card or the final
\* match card.
C29_DocumentedChatFlow ==
    turn.endpoint \in ChatVariants =>
        /\ turn.http = 200 /\ turn.shape = "reply"
        /\ (turn.body.value.kind = "none" /\ turn.body.text # <<>>)
              => turn.messages = <<"welcome">>
        /\ turn.body.value.kind = "start" => turn.messages = <<"question1">>
        /\ \A i \in Questions :
              (turn.body.value.kind = "answer" /\ turn.body.value.questionId = i)
              => turn.messages = <<IF i = 3 THEN "finalMatch" ELSE QuestionCard(i + 1)>>


\* C28 as stated: a background task that waits for the answer to its token
\* request or to its delivery POST eventually ends, answered or not.
C28_TaskTerminates ==
    (tasks[1].pc \in {"token_wait", "post_wait"}) ~> (tasks[1].pc = "done")


\* a start or answer action on its own: card data in a message without text,
\* or in an adaptiveCard/action invoke with an Action.Submit
IsCardAction(a) ==
    Submitted(a) /\ a.text = <<>> /\ a.value.kind \in {"start", "answer"}

\* the same card data delivered the other way
AsInvoke(a) ==
    BotActivity("invoke", "adaptiveCard/action", TRUE, a.conv, <<>>, "Action.Submit", a.value)

AsMessage(a) == BotActivity("message", "", TRUE, a.conv, <<>>, "", a.value)

C32_PostOnlyWithReturnedToken ==
    \A t \in Tasks :
        tasks[t].posts >= 1 =>
            /\ tasks[t].tenant = ResolveTenant(variant, env, tasks[t].activity.tenant)
            /\ tasks[t].token # NoToken
            /\ \/ tasks[t].cacheHit /\ tasks[t].issuerCalls = 0
               \/ /\ ~tasks[t].cacheHit
                  /\ tasks[t].issuerAnswer.kind = "response"
                  /\ tasks[t].issuerAnswer.status \in 200..299
                  /\ tasks[t].issuerAnswer.token = tasks[t].token
            /\ tasks[t].bearer = [token |-> tasks[t].token, truncatedTo |-> 0]


\* the step in which the token request of task t ends with a throw of
\* getBotFrameworkToken
TokenFetchFails(t) ==
    tasks[t].pc = "token_wait" /\ tasks'[t].pc = "done" /\ tasks'[t].failedIn = "token"

\* C33: a token fetch that fails (non-2xx answer, no answer, an answer without
\* access_token or with one that cannot be decoded) leaves every entry of the
\* cache as it was, the stale entry of its own tenant included.
C33_FailedFetchKeepsCache ==
    [][\A t \in Tasks : TokenFetchFails(t) => tokenCacheByTenant' = tokenCacheByTenant]_vars

\* a token fetch has failed while the cache held a stale entry for its tenant,
\* and the entry is still there
C33_Witness ==
    /\ tasks[1].pc = "done"
    /\ tasks[1].failedIn = "token"
    /\ tasks[1].issuerAnswer.kind \in {"none", "response"}
    /\ tokenCacheByTenant[tasks[1].tenant].present
    /\ ~CacheValid(tokenCacheByTenant[tasks[1].tenant], now)


\* C34: the cache is partitioned by tenant.  A step changes the entry of a
\* tenant only when a token request made for that tenant is answered, and
\* then to the pair of the token of that answer; every cached token, and
\* every token a task was served from the cache, carries the tenant it was
\* requested for (the issuer's tid claim) and that is the tenant of the entry
\* and of the task.
C34_CachePartitionedByTenant ==
    /\ [](\A T \in Tenants :
            tokenCacheByTenant[T].present => tokenCacheByTenant[T].token.payload.tid = T)
    /\ [](\A t \in Tasks :
            (tasks[t].cacheHit /\ tasks[t].posts >= 1)
            => /\ tasks[t].token.payload.tid = tasks[t].tenant
               /\ tasks[t].tenant = ResolveTenant(variant, env, tasks[t].activity.tenant))
    /\ [][\A B \in Tenants :
            tokenCacheByTenant'[B] # tokenCacheByTenant[B] =>
                \E t \in Tasks :
                    /\ tasks[t].pc = "token_wait"
                    /\ tasks[t].tenant = B
                    /\ tasks'[t].pc # "token_wait"
                    /\ tokenCacheByTenant'[B] = PairOf(tasks'[t].token)
                    /\ \A A \in Tenants \ {B} :
                          tokenCacheByTenant'[A] = tokenCacheByTenant[A]
       ]_vars

\* both tenants have an entry, each with a token of its own, and a reply for
\* T2 was served from the cache
C34_Witness ==
    /\ tokenCacheByTenant["T1"].present
    /\ tokenCacheByTenant["T2"].present
    /\ tokenCacheByTenant["T1"].token # tokenCacheByTenant["T2"].token
    /\ \E t \in Tasks :
          /\ tasks[t].cacheHit
          /\ tasks[t].tenant = "T2"
          /\ tasks[t].posts >= 1
          /\ tasks[t].token = tokenCacheByTenant["T2"].token


OnlyConversation(us, c) == [d \in DOMAIN us |-> IF d = c THEN us[d] ELSE NoState]

\* C36 as stated: handling an activity of one conversation changes the record of no
\* other conversation, and neither the new record of its own conversation nor
\* the card sent depends on the records of the others (they are what the
\* handlers produce when every other conversation is blank).
C36_ConversationsIsolated ==
    [][turn'.endpoint \in Endpoints =>
          LET a == turn'.activity
              alone == Dispatch(turn'.endpoint, OnlyConversation(userState, a.conv), a,
                                turn'.router, turn'.fails)
          IN /\ \A c \in DOMAIN userState :
                    (~a.hasConversation \/ c # a.conv) => userState'[c] = userState[c]
             /\ a.hasConversation => userState'[a.conv] = alone.us[a.conv]
             /\ turn'.sends = alone.sends
      ]_vars


\* the step that handles a restart: a message of conversation c whose text is
\* a restart phrase, arriving when all three answers are recorded
RestartStep(c) ==
    /\ AllAnswered(userState[c])
    /\ turn'.activity.type = "message"
    /\ turn'.activity.hasConversation
    /\ turn'.activity.conv = c
    /\ trim(toLowerCase(stripMentionsText(turn'.activity.text))) \in RestartPhrases

\* C37: a recorded answer becomes unset only in a restart step of its
\* conversation; in every other step (start actions, answer actions, other
\* text messages, activities of other conversations) each recorded answer
\* stays recorded, so a conversation with all three answers keeps all three.
C37_AnswersOnlyRemovedByRestart ==
    [][\A c \in DOMAIN userState :
          (\E i \in Questions : Answer(userState[c], i) # "" /\ Answer(userState'[c], i) = "")
          => RestartStep(c)
      ]_vars

\* a completed conversation has received a text that is no restart phrase, and
\* is still complete
C37_Witness ==
    /\ IsTextOnly(turn.activity)
    /\ turn.activity.conv = "c1"
    /\ turn.activity.text = <<"what">>
    /\ AllAnswered(userState["c1"])
    /\ userState["c1"].q1 = "B"


\* an answer action that stores nothing: its questionId is none of 1, 2, 3,
\* or its value is missing or empty
IsVoidAnswerAction(a) ==
    /\ Submitted(a)
    /\ a.value.kind = "answer"
    /\ a.value.questionId \notin Questions \/ a.value.value = ""

AnswersKept(c) == \A i \in Questions : Answer(userState'[c], i) = Answer(userState[c], i)

Requested(t) == tasks[t].pc # "idle"

\* a request has gone through a handler that uses the CloudAdapter
AdapterRequested == turn.endpoint \in AdapterDrafts

\* C39: every request to an /api/messages handler gets exactly one response.
\* A request that is not a POST gets 405 and neither a token request nor a
\* delivery nor a handler run follows; a POST gets one response, during and
\* after the background processing, and also when the adapter throws after
\* it has answered.
C39_ExactlyOneResponse ==
    /\ \A t \in Tasks :
          Requested(t) =>
              /\ Len(tasks[t].responses) = 1
              /\ tasks[t].method # "POST" =>
                    /\ tasks[t].responses = <<405>>
                    /\ tasks[t].events = <<>>
                    /\ tasks[t].issuerCalls = 0
                    /\ tasks[t].posts = 0
              /\ tasks[t].method = "POST" => tasks[t].responses[1] \in {200, 400}
    /\ AdapterRequested =>
          /\ Len(turn.responses) = 1
          /\ turn.method # "POST" =>
                /\ turn.responses = <<405>>
                /\ turn.calls = 0
                /\ turn.sends = <<>>
          /\ turn.method = "POST" => turn.responses[1] \in {200, 401, 500}

\* the adapter has run the turn, answered, and then thrown
C39_Witness ==
    /\ turn.endpoint = "adapter"
    /\ turn.method = "POST"
    /\ turn.outcome = [ran |-> TRUE, wrote |-> TRUE, threw |-> TRUE]
    /\ turn.sends # <<>>
    /\ turn.responses = <<200>>

====
